---- MODULE Spec2Model ----
(***************************************************************************)
(* Room lifecycle of the SMessage relay (src/server.js): the room store    *)
(* (rooms, roomIds), the per-socket session fields (socket.roomId,         *)
(* socket.userName), the transport groups of socket.io                     *)
(* (io.sockets.adapter.rooms) and the pending setTimeout callbacks.        *)
(* One action per event handler; each handler runs to completion.          *)
(***************************************************************************)
EXTENDS Integers, Sequences, FiniteSets

(* ------------------------------ bounds -------------------------------- *)
\* connections that may ever be opened
NumSockets == 3
\* outcomes of Math.random() that are explored: passcodes 100000 .. 100000+NumPasscodes-1
NumPasscodes == 2
\* rooms that may ever be created (fresh crypto.randomBytes tokens)
NumRoomIds == 2
\* connections opened plus rooms created, over the whole run
MaxLoad == 4
\* clock ticks (of TickMs) the clock may advance on its own account
MaxTicks == 1

(* ---------------------------- program constants ----------------------- *)
\* const expiresIn = 40 * 60 * 1000
expiresIn == 40 * 60 * 1000
\* lower end of Math.floor(100000 + Math.random() * 900000)
PasscodeBase == 100000
\* granularity of the modelled clock (Date.now()), in ms
TickMs == expiresIn

\* JavaScript undefined, for the string-valued fields
Undefined == "<undefined>"
\* roomData = null / rooms.get() of an absent key
Null == [roomId |-> Undefined, expireAt |-> 0]

Sockets == 1 .. NumSockets

(* ----------------------------- conversions ---------------------------- *)
Digit(d) == SubSeq("0123456789abcdef", d + 1, d + 1)

RECURSIVE numberToString(_)
\* Number.prototype.toString(): decimal digits of a non-negative integer
numberToString(n) == IF n < 10 THEN Digit(n) ELSE numberToString(n \div 10) \o Digit(n % 10)

\* Buffer.toString("hex") of one byte: two lowercase hex digits
ToHex(b) == Digit(b \div 16) \o Digit(b % 16)

IsSpace(c) == c = " "

RECURSIVE TrimStart(_)
TrimStart(s) == IF Len(s) > 0 /\ IsSpace(Head(s)) THEN TrimStart(Tail(s)) ELSE s

RECURSIVE TrimEnd(_)
TrimEnd(s) ==
  IF Len(s) > 0 /\ IsSpace(SubSeq(s, Len(s), Len(s)))
  THEN TrimEnd(SubSeq(s, 1, Len(s) - 1))
  ELSE s

\* String.prototype.trim()
Trim(s) == TrimEnd(TrimStart(s))

\* truthiness of a string-valued payload field ("" and undefined are falsy)
Truthy(v) == v # "" /\ v # Undefined

\* `${v}` inside a template literal
Template(v) == IF v = Undefined THEN "undefined" ELSE v

(* ------------------------------- Map ---------------------------------- *)
\* Map.prototype.set
MapSet(m, k, v) == [x \in DOMAIN m \cup {k} |-> IF x = k THEN v ELSE m[x]]
\* Map.prototype.delete
MapDelete(m, k) == [x \in DOMAIN m \ {k} |-> m[x]]
\* Map.prototype.has
MapHas(m, k) == k \in DOMAIN m

(* ------------------------------ inputs -------------------------------- *)
Passcodes == {numberToString(PasscodeBase + i) : i \in 0 .. NumPasscodes - 1}
RoomIds == {ToHex(i) : i \in 1 .. NumRoomIds}

\* the display name a connection passes to joinRoom: the first never gives one
DisplayName(s) == IF s = 1 THEN "" ELSE "Bob"

\* joinRoom payloads {passcode, roomId}; "" stands for an absent field:
\* a passcode as issued, one typed with blanks around it, one never issued,
\* the first room's roomId alone, and a blank passcode beside that roomId
JoinInputs ==
  {[passcode |-> p, roomId |-> ""] : p \in Passcodes \cup {"000000"}}
  \cup {[passcode |-> " " \o numberToString(PasscodeBase) \o " ", roomId |-> ""],
        [passcode |-> "", roomId |-> ToHex(1)],
        [passcode |-> " ", roomId |-> ToHex(1)]}

Messages == {"hi"}

VARIABLES
  rooms,        \* Map passcode -> {roomId, expireAt}
  roomIds,      \* Map roomId -> passcode
  status,       \* per socket: "idle" (not yet connected), "connected", "disconnected"
  sRoomId,      \* socket.roomId
  userName,     \* socket.userName
  members,      \* io.sockets.adapter.rooms: roomId -> set of sockets ({} = no entry)
  timers,       \* pending setTimeout callbacks, in firing order
  minted,       \* number of tokens crypto.randomBytes has produced
  now,          \* Date.now()
  emitted,      \* what the last handler emitted: [to, event, text, at]
  last,         \* the event handled last and its payload
  fired,        \* roomIds whose timer callback has run
  everIn,       \* open connections that have created a room or joined one with success
  quit,         \* open connections that left a group by quitRoom and have not
                \* created or joined since (state Left)
  expiredRecv   \* socket -> roomId -> number of "Room expired." messages received

vars == <<rooms, roomIds, status, sRoomId, userName, members, timers, minted,
          now, emitted, last, fired, everIn, quit, expiredRecv>>

store == <<rooms, roomIds>>
session == <<sRoomId, userName>>
history == <<fired, expiredRecv>>
record == <<everIn, quit>>

\* the event handled last: its name, its socket (0: none), for joinRoom its
\* payload and whether the socket was in the target group already (line 90),
\* and whether the socket was in state Left when the event arrived
Event(op, s, in, was) ==
  [op |-> op, socket |-> s, passcode |-> in.passcode, roomId |-> in.roomId,
   wasMember |-> was, wasLeft |-> s \in quit]

NoInput == [passcode |-> "", roomId |-> ""]

Emit(to, event, text, at) == [to |-> to, event |-> event, text |-> text, at |-> at]

\* socket.rooms (the groups a socket is in)
socketRooms(s) == {r \in RoomIds : s \in members[r]}

\* io.to(room).emit(event, text): to every member of the group
ioTo(grp, room, event, text) == {Emit(t, event, text, 0) : t \in grp[room]}

\* socket.to(room).emit(event, text): to every member of the group but the socket
socketTo(s, room, event, text) ==
  IF room \in RoomIds
  THEN {Emit(t, event, text, 0) : t \in members[room] \ {s}}
  ELSE {}

\* connections opened so far, and whether one more connection or room fits the bounds
opened == Cardinality({s \in Sockets : status[s] # "idle"})
withinLoad == opened + minted < MaxLoad

Init ==
  /\ rooms = <<>>
  /\ roomIds = <<>>
  /\ status = [s \in Sockets |-> "idle"]
  /\ sRoomId = [s \in Sockets |-> Undefined]
  /\ userName = [s \in Sockets |-> Undefined]
  /\ members = [r \in RoomIds |-> {}]
  /\ timers = <<>>
  /\ minted = 0
  /\ now = 0
  /\ emitted = {}
  /\ fired = {}
  /\ everIn = {}
  /\ quit = {}
  /\ last = Event("init", 0, NoInput, FALSE)
  /\ expiredRecv = [s \in Sockets |-> [r \in RoomIds |-> 0]]

\* io.on("connection"): connections are numbered in the order they open
Connect(s) ==
  /\ status[s] = "idle"
  /\ \A t \in Sockets : t < s => status[t] # "idle"
  /\ withinLoad
  /\ status' = [status EXCEPT ![s] = "connected"]
  /\ emitted' = {}
  /\ last' = Event("connection", s, NoInput, FALSE)
  /\ UNCHANGED <<store, session, members, timers, minted, now, history, record>>

\* socket.join that first takes the socket out of the groups it is in
socketJoinExclusive(s, roomId) ==
  [r \in RoomIds |-> IF r = roomId THEN members[r] \cup {s} ELSE members[r] \ {s}]

\* socket.join that does nothing for a connection that has quit a room
socketJoinUnlessLeft(s, roomId) ==
  IF s \in quit THEN members ELSE [members EXCEPT ![roomId] = @ \cup {s}]

\* lines 55, 95: socket.join(roomId)
socketJoin(s, roomId) == [members EXCEPT ![roomId] = @ \cup {s}]

\* generateUniquePasscode without the rooms.has() retry
generateAnyPasscode == Passcodes

\* the values generateUniquePasscode() can return: a sample not in rooms
generateUniquePasscode == {p \in Passcodes : ~MapHas(rooms, p)}

\* crypto.randomBytes(16).toString("hex"): a token never produced before
randomRoomId == ToHex(minted + 1)

\* socket.on("createRoom")
CreateRoom(s) ==
  /\ status[s] = "connected"
  /\ minted < NumRoomIds
  /\ withinLoad
  /\ \E passcode \in generateUniquePasscode :
       LET roomId == randomRoomId
           expireAt == now + expiresIn
       IN /\ rooms' = MapSet(rooms, passcode, [roomId |-> roomId, expireAt |-> expireAt])
          /\ roomIds' = MapSet(roomIds, roomId, passcode)
          /\ members' = socketJoin(s, roomId)
          /\ sRoomId' = [sRoomId EXCEPT ![s] = roomId]
          /\ emitted' = {Emit(s, "roomCreated", <<passcode, roomId>>, expireAt)}
          /\ timers' = Append(timers,
                 [passcode |-> passcode, roomId |-> roomId, expireAt |-> expireAt])
  /\ minted' = minted + 1
  /\ last' = Event("createRoom", s, NoInput, FALSE)
  /\ everIn' = everIn \cup {s}
  /\ quit' = quit \ {s}
  /\ UNCHANGED <<status, userName, now, history>>

\* the callback forgetting rooms.delete(passcode)
expiredStoreKeepsRoom(t) == <<rooms, MapDelete(roomIds, t.roomId)>>

\* the callback forgetting roomIds.delete(roomId)
expiredStoreKeepsReverse(t) == <<MapDelete(rooms, t.passcode), roomIds>>

\* lines 62-63: the store after the callback has removed the room
expiredStore(t) == <<MapDelete(rooms, t.passcode), MapDelete(roomIds, t.roomId)>>

\* io.emit instead of io.to(roomId).emit: to every open connection
expiryBroadcastAll(t) ==
  {Emit(s, "systemMessage", <<"Room expired.">>, 0) : s \in {x \in Sockets : status[x] = "connected"}}

\* line 64: who receives "Room expired."
expiryBroadcast(t) == ioTo(members, t.roomId, "systemMessage", <<"Room expired.">>)

\* the callback without io.socketsLeave(roomId)
socketsLeaveNone(roomId) == members

\* line 65: io.socketsLeave(roomId)
socketsLeave(roomId) == [members EXCEPT ![roomId] = {}]

\* the setTimeout callback of createRoom: the timers of one duration run in
\* the order they were set, none before its delay has elapsed
Expire ==
  /\ timers # <<>>
  /\ now >= Head(timers).expireAt
  /\ LET t == Head(timers)
     IN /\ IF MapHas(rooms, t.passcode)
           THEN /\ rooms' = expiredStore(t)[1]
                /\ roomIds' = expiredStore(t)[2]
                /\ emitted' = expiryBroadcast(t)
                /\ members' = socketsLeave(t.roomId)
           ELSE /\ emitted' = {}
                /\ UNCHANGED <<store, members>>
        /\ fired' = fired \cup {t.roomId}
        /\ expiredRecv' = [s \in Sockets |-> [r \in RoomIds |->
              IF r = t.roomId /\ s \in {e.to : e \in emitted'}
              THEN expiredRecv[s][r] + 1 ELSE expiredRecv[s][r]]]
        /\ last' = Event("expire", 0, NoInput, FALSE)
  /\ timers' = Tail(timers)
  /\ UNCHANGED <<status, session, minted, now, record>>

roomsGet(k) == IF MapHas(rooms, k) THEN rooms[k] ELSE Null
roomIdsGet(k) == IF MapHas(roomIds, k) THEN roomIds[k] ELSE Undefined

\* a lookup that falls back to roomId when the passcode finds nothing
roomDataFallback(in) ==
  LET byPasscode == IF Truthy(in.passcode) THEN roomsGet(Trim(in.passcode)) ELSE Null
      pCode == roomIdsGet(in.roomId)
  IN IF byPasscode # Null THEN byPasscode
     ELSE IF Truthy(in.roomId) /\ Truthy(pCode) THEN roomsGet(pCode) ELSE Null

\* lines 72-82: the room a joinRoom payload resolves to, or Null
roomData(in) ==
  IF Truthy(in.passcode)
  THEN roomsGet(Trim(in.passcode))
  ELSE IF Truthy(in.roomId)
       THEN LET pCode == roomIdsGet(in.roomId)
            IN IF Truthy(pCode) THEN roomsGet(pCode) ELSE Null
       ELSE Null

\* the capacity test with > in place of >=
isFullOffByOne(s, roomId) ==
  /\ Cardinality(members[roomId]) > 2
  /\ roomId \notin socketRooms(s)

\* the capacity test without !socket.rooms.has(roomId)
isFullNoRejoin(s, roomId) == Cardinality(members[roomId]) >= 2

\* line 90: members && members.size >= 2 && !socket.rooms.has(roomId)
isFull(s, roomId) ==
  /\ members[roomId] # {}
  /\ Cardinality(members[roomId]) >= 2
  /\ roomId \notin socketRooms(s)

\* socket.roomId assigned before the capacity test
refusedRoomIdRecorded(s, roomId) == [sRoomId EXCEPT ![s] = roomId]

\* lines 90-93: socket.roomId after "Room is full." (the handler returns before line 96)
refusedRoomId(s, roomId) == sRoomId

\* socket.to(roomId) in place of io.to(roomId)
joinedBroadcastOthers(s, grp, roomId, text) ==
  {Emit(t, "systemMessage", text, 0) : t \in grp[roomId] \ {s}}

\* line 106: who receives "<name> joined."
joinedBroadcast(s, grp, roomId, text) == ioTo(grp, roomId, "systemMessage", text)

\* socket.on("joinRoom")
JoinRoom(s, in) ==
  /\ status[s] = "connected"
  /\ LET rd == roomData(in)
     IN IF rd = Null
        THEN /\ emitted' = {Emit(s, "systemMessage", <<"Invalid or expired passcode.">>, 0)}
             /\ last' = Event("joinRoom", s, in, FALSE)
             /\ UNCHANGED <<session, members, record>>
        ELSE IF isFull(s, rd.roomId)
        THEN /\ emitted' = {Emit(s, "systemMessage", <<"Room is full.">>, 0)}
             /\ last' = Event("joinRoom", s, in, FALSE)
             /\ sRoomId' = refusedRoomId(s, rd.roomId)
             /\ UNCHANGED <<userName, members, record>>
        ELSE LET grp == socketJoin(s, rd.roomId)
                 name == DisplayName(s)
                 uname == IF Truthy(name) THEN name ELSE "Anonymous"
             IN /\ members' = grp
                /\ sRoomId' = [sRoomId EXCEPT ![s] = rd.roomId]
                /\ userName' = [userName EXCEPT ![s] = uname]
                /\ emitted' =
                     {Emit(s, "joinSuccess", <<rd.roomId, roomIdsGet(rd.roomId)>>, rd.expireAt)}
                     \cup joinedBroadcast(s, grp, rd.roomId, <<Template(uname) \o " joined.">>)
                /\ last' = Event("joinRoom", s, in, rd.roomId \in socketRooms(s))
                /\ everIn' = everIn \cup {s}
                /\ quit' = quit \ {s}
  /\ UNCHANGED <<store, status, timers, minted, now, history>>

\* io.to(roomId) in place of socket.to(roomId)
messageBroadcastAll(s, text) == ioTo(members, sRoomId[s], "newMessage", text)

\* line 112: who receives newMessage
messageBroadcast(s, text) == socketTo(s, sRoomId[s], "newMessage", text)

\* socket.on("sendMessage")
SendMessage(s, message) ==
  /\ status[s] = "connected"
  /\ emitted' = IF ~Truthy(sRoomId[s]) THEN {}
                ELSE messageBroadcast(s, <<message, userName[s]>>)
  /\ last' = Event("sendMessage", s, NoInput, FALSE)
  /\ UNCHANGED <<store, status, session, members, timers, minted, now, history, record>>

\* socket.on("typing")
Typing(s) ==
  /\ status[s] = "connected"
  /\ emitted' = IF Truthy(sRoomId[s]) THEN socketTo(s, sRoomId[s], "showTyping", <<>>) ELSE {}
  /\ last' = Event("typing", s, NoInput, FALSE)
  /\ UNCHANGED <<store, status, session, members, timers, minted, now, history, record>>

\* socket.on("stopTyping")
StopTyping(s) ==
  /\ status[s] = "connected"
  /\ emitted' = IF Truthy(sRoomId[s]) THEN socketTo(s, sRoomId[s], "hideTyping", <<>>) ELSE {}
  /\ last' = Event("stopTyping", s, NoInput, FALSE)
  /\ UNCHANGED <<store, status, session, members, timers, minted, now, history, record>>

\* lines 125-126: the session's roomId after quitRoom (it is never reset)
quitSessionRoomId(s) == sRoomId[s]

\* socket.on("quitRoom")
QuitRoom(s) ==
  /\ status[s] = "connected"
  /\ IF ~Truthy(sRoomId[s])
     THEN /\ emitted' = {}
          /\ UNCHANGED <<members, sRoomId, quit>>
     ELSE /\ emitted' = socketTo(s, sRoomId[s], "systemMessage",
                                 <<Template(userName[s]) \o " left.">>)
          /\ members' = [members EXCEPT ![sRoomId[s]] = @ \ {s}]
          /\ sRoomId' = [sRoomId EXCEPT ![s] = quitSessionRoomId(s)]
          /\ quit' = IF s \in members[sRoomId[s]] THEN quit \cup {s} ELSE quit
  /\ last' = Event("quitRoom", s, NoInput, FALSE)
  /\ UNCHANGED <<store, status, userName, timers, minted, now, history, everIn>>

\* the text built with the template literal alone, without || "User"
disconnectBroadcastNoDefault(s) ==
  socketTo(s, sRoomId[s], "systemMessage", <<Template(userName[s]) \o " disconnected.">>)

\* line 131: who receives "<name or User> disconnected."
disconnectBroadcast(s) ==
  socketTo(s, sRoomId[s], "systemMessage",
           <<(IF Truthy(userName[s]) THEN userName[s] ELSE "User") \o " disconnected.">>)

\* a disconnect handler that removes the rooms whose group it leaves empty
storeOnDisconnectCleansUp(s) ==
  LET gone == {r \in DOMAIN roomIds : members[r] \ {s} = {}}
  IN <<[p \in {q \in DOMAIN rooms : rooms[q].roomId \notin gone} |-> rooms[p]],
       [r \in DOMAIN roomIds \ gone |-> roomIds[r]]>>

\* lines 129-133: the store after a disconnect (the handler touches neither map)
storeOnDisconnect(s) == <<rooms, roomIds>>

\* socket.on("disconnect"); the transport takes the socket out of all its groups,
\* and the socket object, unreachable from then on, is dropped with its fields
Disconnect(s) ==
  /\ status[s] = "connected"
  /\ status' = [status EXCEPT ![s] = "disconnected"]
  /\ emitted' = IF Truthy(sRoomId[s]) THEN disconnectBroadcast(s) ELSE {}
  /\ rooms' = storeOnDisconnect(s)[1]
  /\ roomIds' = storeOnDisconnect(s)[2]
  /\ members' = [r \in RoomIds |-> members[r] \ {s}]
  /\ sRoomId' = [sRoomId EXCEPT ![s] = Undefined]
  /\ userName' = [userName EXCEPT ![s] = Undefined]
  /\ quit' = quit \ {s}
  /\ everIn' = everIn \ {s}
  /\ last' = Event("disconnect", s, NoInput, FALSE)
  /\ UNCHANGED <<timers, minted, now, history>>

\* the passage of time (Date.now()); it runs on while a timer is not yet due
Tick ==
  /\ \/ now < MaxTicks * TickMs
     \/ (timers # <<>> /\ now < Head(timers).expireAt)
  /\ now' = now + TickMs
  /\ emitted' = {}
  /\ last' = Event("tick", 0, NoInput, FALSE)
  /\ UNCHANGED <<store, status, session, members, timers, minted, history, record>>

Next ==
  \/ \E s \in Sockets : Connect(s)
  \/ \E s \in Sockets : CreateRoom(s)
  \/ \E s \in Sockets : \E in \in JoinInputs : JoinRoom(s, in)
  \/ \E s \in Sockets : \E m \in Messages : SendMessage(s, m)
  \/ \E s \in Sockets : Typing(s)
  \/ \E s \in Sockets : StopTyping(s)
  \/ \E s \in Sockets : QuitRoom(s)
  \/ \E s \in Sockets : Disconnect(s)
  \/ Expire
  \/ Tick

Spec == Init /\ [][Next]_vars

\* the clock advances, and a timer that is due gets its turn on the event loop
FairSpec == Spec /\ WF_vars(Tick) /\ WF_vars(Expire)

(* ------------------------------ claims -------------------------------- *)
\* the connections that received `event` from the last handler
Recv(event) == {e.to : e \in {x \in emitted : x.event = event}}
\* likewise for the handler of the step being taken
RecvNext(event) == {e.to : e \in {x \in emitted' : x.event = event}}

Connected == {s \in Sockets : status[s] = "connected"}

\* a connection in state Joined: it has a session roomId and is in that group
Joined(s) == Truthy(sRoomId[s]) /\ s \in members[sRoomId[s]]

InvalidTo(s) == {Emit(s, "systemMessage", <<"Invalid or expired passcode.">>, 0)}
FullTo(s) == {Emit(s, "systemMessage", <<"Room is full.">>, 0)}

\* C1: no two live rooms (rooms created whose expiry has not run, and the
\* entries of roomIds) share a passcode, and the passcode createRoom returns
\* is held by the room it created and by no other live room.
C1_UniquePasscodes ==
  /\ \A i, j \in DOMAIN timers :
       timers[i].passcode = timers[j].passcode => i = j
  /\ \A r1, r2 \in DOMAIN roomIds : roomIds[r1] = roomIds[r2] => r1 = r2
  /\ last.op = "createRoom" =>
       \A e \in emitted :
         /\ MapHas(rooms, e.text[1])
         /\ rooms[e.text[1]].roomId = e.text[2]
         /\ \A r \in DOMAIN roomIds : roomIds[r] = e.text[1] => r = e.text[2]

\* a createRoom has just returned while another room is live
C1_Witness ==
  /\ last.op = "createRoom"
  /\ Cardinality(DOMAIN roomIds) = 2
  /\ Cardinality(DOMAIN rooms) = 2

\* C2: rooms and roomIds are inverse to each other over the same live rooms.
C2_InverseMaps ==
  /\ \A p \in DOMAIN rooms :
       /\ MapHas(roomIds, rooms[p].roomId)
       /\ roomIds[rooms[p].roomId] = p
  /\ \A r \in DOMAIN roomIds :
       /\ MapHas(rooms, roomIds[r])
       /\ rooms[roomIds[r]].roomId = r

\* one room has just expired while another stays live
C2_Witness ==
  /\ last.op = "expire"
  /\ fired # {}
  /\ DOMAIN rooms # {}
  /\ DOMAIN roomIds # {}

\* the joinRoom handled by the step being taken: its socket, payload and target
joinStep == last'.op = "joinRoom"
joinSocket == last'.socket
joinInput == [passcode |-> last'.passcode, roomId |-> last'.roomId]
joinTarget == roomData(joinInput)

NoGroupOverTwo == \A r \in RoomIds : Cardinality(members[r]) <= 2

\* C3: no group ever has more than 2 members, and a joinRoom by a non-member
\* on a room whose group has 2 members answers "Room is full." and changes
\* neither the groups nor the session fields.
C3_RoomFull ==
  /\ NoGroupOverTwo
  /\ [][/\ NoGroupOverTwo'
        /\ (/\ joinStep
            /\ joinTarget # Null
            /\ Cardinality(members[joinTarget.roomId]) >= 2
            /\ joinSocket \notin members[joinTarget.roomId])
           => /\ emitted' = FullTo(joinSocket)
              /\ UNCHANGED <<members, sRoomId, userName>>]_vars

\* a third connection has just been told the room is full
C3_Witness ==
  /\ last.op = "joinRoom"
  /\ emitted = FullTo(last.socket)
  /\ \E r \in RoomIds : Cardinality(members[r]) = 2 /\ last.socket \notin members[r]

\* C4: a joinRoom by a member of the target group succeeds (joinSuccess, no
\* "Room is full.") even with 2 members, and leaves the groups as they were.
C4_RejoinAccepted ==
  [][(/\ joinStep
      /\ joinTarget # Null
      /\ joinSocket \in members[joinTarget.roomId])
     => /\ joinSocket \in RecvNext("joinSuccess")
        /\ \A e \in emitted' : e.text # <<"Room is full.">>
        /\ members' = members]_vars

\* a member of a group of 2 has just re-joined it
C4_Witness ==
  /\ last.op = "joinRoom"
  /\ last.wasMember
  /\ last.socket \in Recv("joinSuccess")
  /\ Cardinality(members[sRoomId[last.socket]]) = 2

ExpiredGone ==
  \A r \in fired :
    /\ ~MapHas(roomIds, r)
    /\ \A p \in DOMAIN rooms : rooms[p].roomId # r
    /\ members[r] = {}

\* C5: once a room's timer callback has run the room is in neither map, its
\* group is empty, a joinRoom by its roomId answers "Invalid or expired
\* passcode." and no joinRoom succeeds into it.
C5_ExpiredForGood ==
  /\ ExpiredGone
  /\ [][/\ ExpiredGone'
        /\ joinStep =>
             /\ (~Truthy(joinInput.passcode) /\ joinInput.roomId \in fired)
                  => emitted' = InvalidTo(joinSocket)
             /\ \A e \in emitted' :
                  e.event = "joinSuccess" => e.text[1] \notin fired]_vars

\* a former member of an expired room has just tried to join it again
C5_Witness ==
  /\ last.op = "joinRoom"
  /\ last.roomId \in fired
  /\ sRoomId[last.socket] = last.roomId
  /\ emitted = InvalidTo(last.socket)

ExpiredAtMostOnce ==
  \A s \in Sockets : \A r \in RoomIds :
    /\ expiredRecv[s][r] <= 1
    /\ expiredRecv[s][r] = 1 => r \in fired

\* C6: "Room expired." reaches exactly the members the group has when the
\* callback runs, once each: a connection's count for a room goes up by one
\* in the step that expires the room if it is in the group then, and never
\* otherwise; no count exceeds one.
C6_ExpiredOnce ==
  /\ ExpiredAtMostOnce
  /\ [][/\ ExpiredAtMostOnce'
        /\ \A s \in Sockets : \A r \in RoomIds :
             expiredRecv'[s][r] - expiredRecv[s][r] =
               IF r \in fired' \ fired /\ s \in members[r] THEN 1 ELSE 0]_vars

\* a room has just expired on a member while another connection was outside it
C6_Witness ==
  /\ last.op = "expire"
  /\ \E s, t \in Connected : \E r \in fired :
       /\ expiredRecv[s][r] = 1
       /\ expiredRecv[t][r] = 0
       /\ s \in Recv("systemMessage")

\* what the claim calls a payload that resolves to no live room
Unresolved(in) ==
  IF Truthy(in.passcode)
  THEN ~MapHas(rooms, Trim(in.passcode))
  ELSE ~MapHas(roomIds, in.roomId)

\* C7: a joinRoom whose trimmed passcode, or without a passcode whose roomId,
\* is no live room answers "Invalid or expired passcode." to the requester
\* alone and changes no group, no session field and neither map.
C7_InvalidJoin ==
  [][(joinStep /\ Unresolved(joinInput))
     => /\ emitted' = InvalidTo(joinSocket)
        /\ UNCHANGED <<members, sRoomId, userName, rooms, roomIds>>]_vars

\* an unresolvable joinRoom has just been refused while a room is live
C7_Witness ==
  /\ last.op = "joinRoom"
  /\ emitted = InvalidTo(last.socket)
  /\ DOMAIN rooms # {}
  /\ sRoomId[last.socket] = Undefined

\* C8: sendMessage of a Joined connection delivers newMessage {message, from}
\* to the other members of its room, and to nobody else.
C8_MessageToOthers ==
  [][(last'.op = "sendMessage" /\ Joined(last'.socket))
     => /\ RecvNext("newMessage") = members[sRoomId[last'.socket]] \ {last'.socket}
        /\ \A e \in emitted' :
             /\ e.event = "newMessage"
             /\ e.text[1] \in Messages
             /\ e.text[2] = userName[last'.socket]]_vars

\* a message has just been relayed to the other member of the room
C8_Witness ==
  /\ last.op = "sendMessage"
  /\ Joined(last.socket)
  /\ Recv("newMessage") # {}
  /\ \E t \in Connected : t # last.socket /\ t \notin Recv("newMessage")

\* C9 as stated: on a successful joinRoom "<name> joined." goes to the other
\* members of the room and not to the joining connection.
C9_JoinedToOthersOnly ==
  (last.op = "joinRoom" /\ last.socket \in Recv("joinSuccess"))
  => Recv("systemMessage") = members[sRoomId[last.socket]] \ {last.socket}

\* C9 amended: on a successful joinRoom "<name> joined." goes to every member
\* of the room, the joining connection included.
C9_JoinedToAll ==
  (last.op = "joinRoom" /\ last.socket \in Recv("joinSuccess"))
  => /\ Recv("systemMessage") = members[sRoomId[last.socket]]
     /\ last.socket \in Recv("systemMessage")
     /\ \A e \in emitted : e.event = "systemMessage" =>
          e.text = <<userName[last.socket] \o " joined.">>

\* a second connection has just joined a room
C9_Witness ==
  /\ last.op = "joinRoom"
  /\ ~last.wasMember
  /\ last.socket \in Recv("joinSuccess")
  /\ Cardinality(Recv("systemMessage")) = 2

\* C10: for every roomId at most 2 open connections have it as socket.roomId.
C10_AtMostTwoSessions ==
  \A r \in RoomIds :
    Cardinality({s \in Connected : sRoomId[s] = r}) <= 2

\* the events a connection sends once it is in a room
RoomOps == {"sendMessage", "typing", "stopTyping", "quitRoom"}

\* C11: after a Joined connection has performed quitRoom, a sendMessage,
\* typing, stopTyping, quitRoom or disconnect from it emits nothing to the
\* members of the room it left (its session keeps no room association).
C11_QuitSilences ==
  (last.op \in RoomOps \cup {"disconnect"} /\ last.wasLeft) => emitted = {}

\* C12 as stated: once a connection has performed quitRoom, no later
\* createRoom or joinRoom makes it a member of a room's group again.
C12_NoWayBack ==
  (last.op \in {"createRoom", "joinRoom"} /\ last.wasLeft)
  => last.socket \notin members[sRoomId[last.socket]]

\* C12 amended: a connection that has performed quitRoom becomes a member
\* again by a later createRoom (always) and by a later joinRoom whose payload
\* resolves to a live room with fewer than 2 members.
C12_RejoinAfterQuit ==
  [][/\ (last'.op = "createRoom" /\ last'.wasLeft)
          => /\ last'.socket \in members'[randomRoomId]
             /\ sRoomId'[last'.socket] = randomRoomId
     /\ (/\ joinStep
         /\ last'.wasLeft
         /\ joinTarget # Null
         /\ Cardinality(members[joinTarget.roomId]) < 2)
          => /\ joinSocket \in members'[joinTarget.roomId]
             /\ joinSocket \in RecvNext("joinSuccess")
             /\ sRoomId'[joinSocket] = joinTarget.roomId]_vars

\* a connection that had quit its room has just joined a room again
C12_Witness ==
  /\ last.op = "joinRoom"
  /\ last.wasLeft
  /\ last.socket \in Recv("joinSuccess")
  /\ last.socket \in members[sRoomId[last.socket]]

\* C13: sendMessage, typing, stopTyping and quitRoom of a connection that has
\* never created or joined a room emit nothing and change neither map, no
\* group and no session field.
C13_UnjoinedNoOp ==
  [][(last'.op \in RoomOps /\ last'.socket \notin everIn)
     => /\ emitted' = {}
        /\ UNCHANGED <<rooms, roomIds, members, sRoomId, userName>>]_vars

\* a connection that never created or joined a room has just sent an event
\* while a room has two members
C13_Witness ==
  /\ last.op \in RoomOps
  /\ last.socket \notin everIn
  /\ emitted = {}
  /\ \E r \in RoomIds : Cardinality(members[r]) = 2

\* the name a disconnect reports: socket.userName, or "User" without one
NameOrUser(s) == IF userName[s] = Undefined THEN "User" ELSE userName[s]

\* C14: when a Joined connection disconnects, each other member of its room
\* receives one "<name or User> disconnected." and the connection is in no
\* group afterwards; a connection that never created or joined a room
\* disconnects without any emission.
C14_DisconnectNotice ==
  [][last'.op = "disconnect" =>
       /\ Joined(last'.socket) =>
            emitted' = {Emit(t, "systemMessage",
                             <<NameOrUser(last'.socket) \o " disconnected.">>, 0) :
                          t \in members[sRoomId[last'.socket]] \ {last'.socket}}
       /\ \A r \in RoomIds : last'.socket \notin members'[r]
       /\ last'.socket \notin everIn => emitted' = {}]_vars

\* the creator of a room, who never gave a name, has just disconnected from
\* a room with another member
C14_Witness ==
  /\ last.op = "disconnect"
  /\ \E t \in Connected :
       emitted = {Emit(t, "systemMessage", <<"User disconnected.">>, 0)}

\* a room that is in one of the two maps
Live(r) == MapHas(roomIds, r) \/ \E p \in DOMAIN rooms : rooms[p].roomId = r

\* C15: every room createRoom has put in the maps is eventually in neither,
\* whatever the clients do, provided time passes and due timers run.
C15_EveryRoomExpires == \A r \in RoomIds : Live(r) ~> ~Live(r)

\* a room has just expired after every connection had closed
C15_Witness ==
  /\ last.op = "expire"
  /\ fired # {}
  /\ opened >= 2
  /\ Connected = {}
  /\ \A r \in fired : ~Live(r)

\* C16: from its creation until its own timer callback runs a room keeps both
\* its entries, with the roomId, passcode and expireAt createRoom gave it (the
\* values its pending timer holds), and resolves by passcode and by roomId.
C16_UntouchedUntilExpiry ==
  \A i \in DOMAIN timers :
    LET t == timers[i]
        room == [roomId |-> t.roomId, expireAt |-> t.expireAt]
    IN /\ MapHas(rooms, t.passcode)
       /\ rooms[t.passcode] = room
       /\ MapHas(roomIds, t.roomId)
       /\ roomIds[t.roomId] = t.passcode
       /\ roomData([passcode |-> t.passcode, roomId |-> ""]) = room
       /\ roomData([passcode |-> "", roomId |-> t.roomId]) = room

\* the last member of a room has just disconnected and the room is still there
C16_Witness ==
  /\ last.op = "disconnect"
  /\ timers # <<>>
  /\ members[Head(timers).roomId] = {}
  /\ Live(Head(timers).roomId)

\* C17: no joinRoom handled at a clock time at or after the room's expireAt
\* succeeds.
C17_NoJoinAfterExpireAt ==
  last.op = "joinRoom" =>
    \A e \in emitted : e.event = "joinSuccess" => now < e.at

\* C18: a connection is a member of at most one room's group, and when it is
\* a member of a group its session roomId is that group's roomId.
C18_OneRoomPerConnection ==
  \A s \in Sockets :
    /\ Cardinality(socketRooms(s)) <= 1
    /\ socketRooms(s) # {} => socketRooms(s) = {sRoomId[s]}

\* C19: when a room's timer callback runs, its passcode is in rooms and maps
\* to that very room; the callback removes that room's two entries and empties
\* that room's group, and leaves every other room's entries and group alone.
C19_ExpiryHitsOwnRoom ==
  [][last'.op = "expire" =>
       LET t == Head(timers)
       IN /\ MapHas(rooms, t.passcode)
          /\ rooms[t.passcode].roomId = t.roomId
          /\ rooms' = MapDelete(rooms, t.passcode)
          /\ roomIds' = MapDelete(roomIds, t.roomId)
          /\ \A r \in RoomIds \ {t.roomId} : members'[r] = members[r]
          /\ \A e \in emitted' : e.to \in members[t.roomId]]_vars

\* the second of two rooms has just expired
C19_Witness ==
  /\ last.op = "expire"
  /\ Cardinality(fired) = 2
  /\ \E s \in Connected : s \in Recv("systemMessage")

\* C20: every roomId whose group has a member is a key of roomIds.
C20_GroupsOfLiveRooms ==
  \A r \in RoomIds : members[r] # {} => MapHas(roomIds, r)

\* a room has just expired on its members while another room has members
C20_Witness ==
  /\ last.op = "expire"
  /\ Recv("systemMessage") # {}
  /\ \E r \in RoomIds \ fired : members[r] # {}

====
